---- MODULE Spec2Model ----
(***************************************************************************)
(* Model of the eBay Listing AI application: the React root component     *)
(* (App), the listing panel (ListingResult) and the marketplace            *)
(* connection / publishing service they call (services/ebayService).      *)
(*                                                                         *)
(* The App component and ListingResult are translated from their source.  *)
(* services/ebayService and the server behind it are not part of the      *)
(* available sources; their operators below (marked "service") follow the *)
(* written specification of the connection and publishing subsystem.      *)
(***************************************************************************)
EXTENDS Integers, Sequences, FiniteSets, TLC

(* ------------------------------ bounds -------------------------------- *)
\* Authorization codes the marketplace has issued are 1..MaxCodes; the value
\* MaxCodes + 1 stands for a code it never issued (malformed); 0 is "no code
\* parameter in the URL".
MaxCodes == 2
\* beginAuthorization may be called at most MaxBegin times (the nonces are
\* 1..MaxBegin, handed out in order; 0 is "no nonce" / "no state parameter").
MaxBegin == 2

IssuedCodes == 1..MaxCodes
UrlCodes == 0..(MaxCodes + 1)
UrlStates == 0..MaxBegin

\* The empty Token Store.
NoToken == [held |-> FALSE, code |-> 0, access |-> "none", refresh |-> "none"]
\* The TokenSet the marketplace's token endpoint returns for code c.
TokenFor(c) == [held |-> TRUE, code |-> c, access |-> "valid", refresh |-> "valid"]

\* No disconnect call has been made yet.  inRow counts the disconnect calls made
\* since the last other call that writes session state (capped at 2), outcome is
\* how the last one ended, tick flips at every call.
NoDiscCall == [inRow |-> 0, outcome |-> "none", tick |-> FALSE]

(* ------------------------------ data ---------------------------------- *)
\* ImageUploader's limits.
MAX_FILES == 8
MAX_SIZE_MB == 5
MAX_SIZE_BYTES == MAX_SIZE_MB * 1024 * 1024

\* The files offered to the picker: an image within the size limit, an image
\* one byte over it, and a file that is not an image.
SmallImage == [type |-> "image/png", size |-> MAX_SIZE_BYTES]
BigImage == [type |-> "image/png", size |-> MAX_SIZE_BYTES + 1]
TextFile == [type |-> "text/plain", size |-> 1]
FileKinds == {SmallImage, BigImage, TextFile}
IsImageType(f) == f.type \in {"image/png"}

\* A selection made while posts are followed holds at most MaxPick files, all
\* of them images within the limit (the selections the picker rejects are drawn
\* from WideSelections).
MaxPick == 1
Selections == {[k \in 1..n |-> SmallImage] : n \in 0..MaxPick}

\* A file list offered to the picker alone holds at most MAX_FILES + MaxOver
\* files: images within the limit, one of which may be replaced by any of the
\* three kinds.
MaxOver == 1
WideSelections ==
  {[k \in 1..n |-> IF k = j THEN kind ELSE SmallImage] :
     n \in 0..(MAX_FILES + MaxOver), j \in 1..(MAX_FILES + MaxOver),
     kind \in FileKinds}

\* The listing state of App: null, or the listing data a generation returned.
NoListing ==
  [present |-> FALSE, title |-> "missing", category |-> "missing",
   itemSpecifics |-> "missing", description |-> "missing"]
GoodData ==
  [present |-> TRUE, title |-> "present", category |-> "nonEmptyArray",
   itemSpecifics |-> "present", description |-> "present"]
\* The bodies /api/generateListing answers with: a complete listing; a listing
\* with one field absent or unusable (an absent or empty title or description,
\* an absent category, one that is not an array, an empty category array, absent
\* item specifics); a body with none of the fields; or an error status.
GenResponses ==
  {[ok |-> TRUE, data |-> GoodData],
   [ok |-> TRUE, data |-> [GoodData EXCEPT !.title = "missing"]],
   [ok |-> TRUE, data |-> [GoodData EXCEPT !.title = "empty"]],
   [ok |-> TRUE, data |-> [GoodData EXCEPT !.category = "missing"]],
   [ok |-> TRUE, data |-> [GoodData EXCEPT !.category = "notArray"]],
   [ok |-> TRUE, data |-> [GoodData EXCEPT !.category = "emptyArray"]],
   [ok |-> TRUE, data |-> [GoodData EXCEPT !.itemSpecifics = "missing"]],
   [ok |-> TRUE, data |-> [GoodData EXCEPT !.description = "missing"]],
   [ok |-> TRUE, data |-> [GoodData EXCEPT !.description = "empty"]],
   [ok |-> TRUE, data |-> [NoListing EXCEPT !.present = TRUE]],
   [ok |-> FALSE, data |-> NoListing]}

\* postStatus before and between posts.
IdlePostStatus == [loading |-> FALSE, error |-> "none", success |-> "none"]

\* PublishResult values.
NoResult ==
  [success |-> FALSE, itemUrl |-> "none", failureReason |-> "none",
   message |-> "none"]
Success(url) ==
  [success |-> TRUE, itemUrl |-> url, failureReason |-> "none", message |-> "none"]
Failure(reason, msg) ==
  [success |-> FALSE, itemUrl |-> "none", failureReason |-> reason,
   message |-> msg]
\* The URL built from the item identifier the activation step returns.
ItemUrl == "https://marketplace/itm/123456"
\* The detail messages the marketplace rejects an offer with.
MarketplaceMessages == {"Brand is required", "Policy violation"}

\* At most MaxInFlight publish requests are in flight at once.
MaxInFlight == 2
\* A publish call followed step by step carries at most MaxImages images.
MaxImages == 3

\* The orchestrator between calls.  pc is the step it is at, resume the step a
\* refresh returns to, i the number of images uploaded, refreshes the number of
\* refresh calls made, issued the kinds of marketplace request issued, listed
\* the number of listings made live and detail the detail message of the
\* marketplace's last answer, all for the call being served.
IdlePub ==
  [pc |-> "idle", resume |-> "idle", i |-> 0, refreshes |-> 0, issued |-> {},
   listed |-> 0, detail |-> "none", result |-> NoResult]
PublishSteps == {"upload", "draft", "offer", "activate"}

VARIABLES
  \* window.location and whether the application page is loaded
  page, pathname, urlCode, urlState,
  \* App component state (useState)
  isConnecting, isEbayConnected, error,
  \* the two asynchronous tasks started on mount
  initPc, initVal, cbPc,
  \* service / server session state
  tokenStore, nonce, nextNonce, usedCodes,
  \* observation of the disconnect calls made
  discLog,
  \* ImageUploader component state
  currentFiles, uploadError,
  \* the file list last handed to processFiles
  lastSelected,
  \* App component state for the listing and the post
  files, listing, isLoading, postStatus,
  \* the generation request in flight and the files it was started from
  genPc, genFiles,
  \* the publish requests in flight and the orchestrator serving the oldest
  postQueue, pub

locVars == <<page, pathname, urlCode, urlState>>
connVars == <<isConnecting, isEbayConnected, error>>
taskVars == <<initPc, initVal, cbPc>>
srvVars == <<tokenStore, nonce, nextNonce, usedCodes>>
logVars == <<discLog>>
pickVars == <<currentFiles, uploadError, lastSelected>>
listVars == <<files, listing, isLoading, postStatus>>
genVars == <<genPc, genFiles>>
pubVars == <<postQueue, pub>>
workVars == <<pickVars, listVars, genVars, pubVars>>
vars == <<locVars, connVars, taskVars, srvVars, logVars, workVars>>

(* ------------------------- service (from the spec) -------------------- *)
\* isConnected(): a local predicate on the Token Store.
IsConnected(store) == store.held

\* The results a completeAuthorization call can report.
AuthResults == {"ok", "ExchangeFailed", "InvalidState"}

\* completeAuthorization's state check: the callback's state is the nonce
\* outstanding for the session.
StateMatches(state, outstanding) == state # 0 /\ state = outstanding

\* The marketplace's token endpoint accepts a code iff it issued it and the code
\* has not been redeemed before (single use).
MarketplaceAccepts(c, used) == c \in IssuedCodes /\ c \notin used

\* getEbayAuthUrl -> beginAuthorization(): a fresh state nonce is generated and
\* recorded for the session, replacing any nonce recorded before.
BeginAuthorization(next) == [nonce |-> next, nextNonce |-> next + 1]

\* exchangeCodeForToken(code): the code is exchanged at the marketplace's token
\* endpoint; on success the TokenSet is stored, otherwise the call fails with
\* ExchangeFailed and the store is untouched.  The call receives the code only.
ExchangeCodeForToken(code, store, used) ==
  IF MarketplaceAccepts(code, used)
    THEN [result |-> "ok", store |-> TokenFor(code), used |-> used \cup {code}]
    ELSE [result |-> "ExchangeFailed", store |-> store, used |-> used]

\* checkEbayConnection -> isConnected().
CheckEbayConnection(store) == IsConnected(store)

\* The outcomes disconnectFromEbay can have: revocation is attempted only when a
\* TokenSet is held, and its failure may or may not be raised to the caller.
DisconnectOutcomes(store) == IF store.held THEN {"ok", "threw"} ELSE {"ok"}

\* disconnectFromEbay -> disconnect(): the Token Store is cleared whatever the
\* revocation did.
DisconnectFromEbay(store, outcome) == NoToken

(* --------------------------- App component ---------------------------- *)
CallbackPath == "/ebay/callback"
Paths == {"/", CallbackPath}

\* The connect button is rendered when the spinner is off and the flag is false,
\* the disconnect link when the spinner is off and the flag is true.
ConnectButtonVisible == page = "app" /\ ~isConnecting /\ ~isEbayConnected
DisconnectButtonVisible == page = "app" /\ ~isConnecting /\ isEbayConnected

\* The state right after the component is constructed, before any effect runs.
InitialConnState ==
  /\ isConnecting' = TRUE
  /\ isEbayConnected' = FALSE
  /\ error' = "none"

\* The components' other state after construction; the requests the page that
\* is gone had in flight lose their caller (their answers reach nobody).
InitialWorkState ==
  /\ currentFiles' = <<>> /\ uploadError' = "none" /\ lastSelected' = <<>>
  /\ files' = <<>> /\ listing' = NoListing /\ isLoading' = FALSE
  /\ postStatus' = IdlePostStatus
  /\ genPc' = "idle" /\ genFiles' = <<>>
  /\ postQueue' = [k \in 1..Len(postQueue) |-> [postQueue[k] EXCEPT !.alive = FALSE]]

\* The page is (re)loaded at a URL: the component mounts and both mount effects
\* run: initialize() sends the connection check, and on the callback path with a
\* code handleEbayCallback turns the spinner on and sends the exchange.
Mount(path, code, state) ==
  /\ page' = "app"
  /\ pathname' = path
  /\ urlCode' = code
  /\ urlState' = state
  /\ InitialConnState
  /\ initPc' = "sent"
  /\ initVal' = FALSE
  /\ cbPc' = IF path = CallbackPath /\ code # 0 THEN "sent" ELSE "none"
  /\ InitialWorkState
  /\ UNCHANGED <<srvVars, logVars, pub>>

PageLoad ==
  \E path \in Paths, code \in UrlCodes, state \in UrlStates :
    /\ path = "/" => code = 0 /\ state = 0
    /\ Mount(path, code, state)

\* The server answers the connection check (or the request fails).
InitServe ==
  /\ page = "app" /\ initPc = "sent"
  /\ \/ initPc' = "answered" /\ initVal' = CheckEbayConnection(tokenStore)
     \/ initPc' = "threw" /\ initVal' = FALSE
  /\ UNCHANGED <<locVars, connVars, cbPc, srvVars, logVars, workVars>>

\* initialize() resumes after its await.
InitSettle ==
  /\ page = "app" /\ initPc \in {"answered", "threw"}
  /\ isEbayConnected' = IF initPc = "answered" THEN initVal ELSE FALSE
  /\ isConnecting' = FALSE
  /\ initPc' = "done"
  /\ UNCHANGED <<locVars, error, initVal, cbPc, srvVars, logVars, workVars>>

\* The server handles the exchange request handleEbayCallback sent.
ExchangeServe ==
  /\ page = "app" /\ cbPc = "sent"
  /\ LET r == ExchangeCodeForToken(urlCode, tokenStore, usedCodes) IN
       /\ tokenStore' = r.store
       /\ usedCodes' = r.used
       /\ cbPc' = r.result
  /\ discLog' = [discLog EXCEPT !.inRow = 0]
  /\ UNCHANGED <<locVars, connVars, initPc, initVal, nonce, nextNonce, workVars>>

\* handleEbayCallback resumes after its await: the flag is set on success, the
\* error on failure, and in both cases the spinner goes off and the query
\* string is removed from the URL.
HandleEbayCallbackAlwaysConnects ==
  /\ page = "app" /\ cbPc \in AuthResults
  /\ isEbayConnected' = TRUE
  /\ error' = error
  /\ isConnecting' = FALSE
  /\ urlCode' = 0 /\ urlState' = 0
  /\ cbPc' = "done"
  /\ UNCHANGED <<page, pathname, initPc, initVal, srvVars, logVars, workVars>>

HandleEbayCallback ==
  /\ page = "app" /\ cbPc \in AuthResults
  /\ isEbayConnected' = IF cbPc = "ok" THEN TRUE ELSE isEbayConnected
  /\ error' = IF cbPc = "ok" THEN error ELSE "connectFailed"
  /\ isConnecting' = FALSE
  /\ urlCode' = 0 /\ urlState' = 0
  /\ cbPc' = "done"
  /\ UNCHANGED <<page, pathname, initPc, initVal, srvVars, logVars, workVars>>

\* handleEbayConnect: on success the browser leaves for the marketplace's
\* authorization page (the component and its pending tasks are gone).
HandleEbayConnect ==
  /\ ConnectButtonVisible
  /\ \/ /\ nextNonce <= MaxBegin
        /\ LET b == BeginAuthorization(nextNonce) IN
             nonce' = b.nonce /\ nextNonce' = b.nextNonce
        /\ page' = "away"
        /\ pathname' = "/" /\ urlCode' = 0 /\ urlState' = 0
        /\ InitialConnState
        /\ initPc' = "done" /\ initVal' = FALSE /\ cbPc' = "none"
        /\ InitialWorkState
        /\ discLog' = [discLog EXCEPT !.inRow = 0]
        /\ UNCHANGED <<tokenStore, usedCodes, pub>>
     \/ /\ error' = "connectUnavailable"
        /\ UNCHANGED <<locVars, isConnecting, isEbayConnected, taskVars, srvVars,
                       logVars, workVars>>

\* handleEbayDisconnect: await disconnectFromEbay(); setIsEbayConnected(false).
\* Nothing catches a rejection, so the flag is written only when the call returns.
HandleEbayDisconnectKeepsFlag ==
  /\ DisconnectButtonVisible
  /\ \E outcome \in DisconnectOutcomes(tokenStore) :
       /\ tokenStore' = DisconnectFromEbay(tokenStore, outcome)
       /\ isEbayConnected' = isEbayConnected
       /\ discLog' = [inRow |-> IF discLog.inRow = 0 THEN 1 ELSE 2,
                      outcome |-> outcome, tick |-> ~discLog.tick]
  /\ UNCHANGED <<locVars, isConnecting, error, taskVars, nonce, nextNonce,
                 usedCodes, workVars>>

HandleEbayDisconnect ==
  /\ DisconnectButtonVisible
  /\ \E outcome \in DisconnectOutcomes(tokenStore) :
       /\ tokenStore' = DisconnectFromEbay(tokenStore, outcome)
       /\ isEbayConnected' = IF outcome = "ok" THEN FALSE ELSE isEbayConnected
       /\ discLog' = [inRow |-> IF discLog.inRow = 0 THEN 1 ELSE 2,
                      outcome |-> outcome, tick |-> ~discLog.tick]
  /\ UNCHANGED <<locVars, isConnecting, error, taskVars, nonce, nextNonce,
                 usedCodes, workVars>>

(* ------------------------- ImageUploader / App ------------------------ *)
\* handleImagesChange: the new file list replaces the old one, and the listing,
\* the error and the post status are reset.
HandleImagesChange(selectedFiles) ==
  /\ files' = selectedFiles
  /\ listing' = NoListing
  /\ error' = "none"
  /\ postStatus' = IdlePostStatus

\* What processFiles reports for a selection: the upload error it sets and the
\* list it keeps and hands to onImagesChange.  A selection over the count limit,
\* or holding a file that is not an image or is over the size limit, is dropped
\* as a whole.
ProcessedFilesKeepsValid(sel) ==
  IF Len(sel) > MAX_FILES
    THEN [error |-> "tooMany", files |-> <<>>]
  ELSE IF \E k \in 1..Len(sel) : ~IsImageType(sel[k])
    THEN [error |-> "notImage",
          files |-> SelectSeq(sel, LAMBDA f : IsImageType(f) /\ f.size <= MAX_SIZE_BYTES)]
  ELSE IF \E k \in 1..Len(sel) : sel[k].size > MAX_SIZE_BYTES
    THEN [error |-> "tooLarge",
          files |-> SelectSeq(sel, LAMBDA f : IsImageType(f) /\ f.size <= MAX_SIZE_BYTES)]
  ELSE [error |-> "none", files |-> sel]

ProcessedFiles(sel) ==
  IF Len(sel) > MAX_FILES
    THEN [error |-> "tooMany", files |-> <<>>]
  ELSE IF \E k \in 1..Len(sel) : ~IsImageType(sel[k])
    THEN [error |-> "notImage", files |-> <<>>]
  ELSE IF \E k \in 1..Len(sel) : sel[k].size > MAX_SIZE_BYTES
    THEN [error |-> "tooLarge", files |-> <<>>]
  ELSE [error |-> "none", files |-> sel]

\* processFiles, called from the file input and from a drop with one of the
\* file lists sels.
ProcessFilesFrom(sels) ==
  /\ page = "app"
  /\ \E sel \in sels :
       LET r == ProcessedFiles(sel) IN
         /\ lastSelected' = sel
         /\ uploadError' = r.error
         /\ currentFiles' = r.files
         /\ HandleImagesChange(r.files)
  /\ UNCHANGED <<locVars, isConnecting, isEbayConnected, taskVars, srvVars,
                 logVars, isLoading, genVars, pubVars>>

ProcessFiles == ProcessFilesFrom(Selections)
\* The same with file lists of up to MAX_FILES + MaxOver files.
ProcessWideFiles == ProcessFilesFrom(WideSelections)

\* The list without its element at index k (1-based).
RemoveAt(seq, k) == [j \in 1..(Len(seq) - 1) |-> IF j < k THEN seq[j] ELSE seq[j + 1]]

\* handleRemoveImage, from the remove button of a thumbnail.
HandleRemoveImage ==
  /\ page = "app"
  /\ \E k \in 1..Len(currentFiles) :
       /\ currentFiles' = RemoveAt(currentFiles, k)
       /\ HandleImagesChange(RemoveAt(currentFiles, k))
  /\ UNCHANGED <<locVars, isConnecting, isEbayConnected, taskVars, srvVars,
                 logVars, uploadError, lastSelected, isLoading, genVars, pubVars>>

\* A field value that JavaScript's ! operator takes for false: an absent field
\* or an empty string.
Falsy(v) == v \in {"missing", "empty"}
\* Array.isArray of a category value.
IsArray(v) == v \in {"emptyArray", "nonEmptyArray"}

\* generateEbayListing's validation of a 200 response body.
ValidListingDataIgnoresCategoryLength(d) ==
  ~(\/ Falsy(d.title)
    \/ Falsy(d.category)
    \/ ~IsArray(d.category)
    \/ Falsy(d.itemSpecifics)
    \/ Falsy(d.description))

ValidListingData(d) ==
  ~(\/ Falsy(d.title)
    \/ Falsy(d.category)
    \/ ~IsArray(d.category)
    \/ d.category = "emptyArray"
    \/ Falsy(d.itemSpecifics)
    \/ Falsy(d.description))

\* generateEbayListing: the listing data, or a thrown error, whose message
\* tells a failed request from malformed data.
GenerateEbayListing(resp) ==
  IF ~resp.ok THEN [pc |-> "failed", data |-> NoListing]
  ELSE IF ~ValidListingData(resp.data) THEN [pc |-> "malformed", data |-> NoListing]
  ELSE [pc |-> "ok", data |-> resp.data]

\* The generate button is enabled when no generation is running and the file
\* list is not empty.
GenerateButtonEnabled == page = "app" /\ ~isLoading /\ Len(files) # 0

\* handleGenerateListing up to its await.
HandleGenerateListing ==
  /\ GenerateButtonEnabled
  /\ IF Len(files) = 0
       THEN /\ error' = "noImages"
            /\ UNCHANGED <<listVars, genVars>>
       ELSE /\ isLoading' = TRUE
            /\ error' = "none"
            /\ listing' = NoListing
            /\ postStatus' = IdlePostStatus
            /\ genPc' = "sent" /\ genFiles' = files
            /\ UNCHANGED files
  /\ UNCHANGED <<locVars, isConnecting, isEbayConnected, taskVars, srvVars,
                 logVars, pickVars, pubVars>>

\* handleGenerateListing resumes after its await, when /api/generateListing has
\* answered and generateEbayListing has validated the answer: the listing is
\* installed, or the message of the thrown error is shown, and the spinner goes
\* off.  Nothing of the answer is visible to the component before that.
GenSettle ==
  /\ page = "app" /\ genPc = "sent"
  /\ \E resp \in GenResponses :
       LET r == GenerateEbayListing(resp) IN
         /\ listing' = IF r.pc = "ok" THEN r.data ELSE listing
         /\ error' = CASE r.pc = "ok" -> error
                       [] r.pc = "malformed" -> "malformedData"
                       [] r.pc = "failed" -> "generateFailed"
  /\ isLoading' = FALSE
  /\ genPc' = "idle" /\ genFiles' = <<>>
  /\ UNCHANGED <<locVars, isConnecting, isEbayConnected, taskVars, srvVars,
                 logVars, pickVars, files, postStatus, pubVars>>

\* ListingResult is rendered when there is a listing and no generation runs;
\* its post button is disabled when the flag is false or a post is loading.
PostButtonEnabled ==
  /\ page = "app"
  /\ listing.present /\ ~isLoading
  /\ ~(~isEbayConnected \/ postStatus.loading)

\* handlePostToEbay up to its await: the request carries the current file list.
HandlePostToEbay ==
  /\ PostButtonEnabled
  /\ Len(postQueue) < MaxInFlight
  /\ listing.present
  /\ postStatus' = [loading |-> TRUE, error |-> "none", success |-> "none"]
  /\ postQueue' = Append(postQueue, [images |-> files, alive |-> TRUE])
  /\ UNCHANGED <<locVars, connVars, taskVars, srvVars, logVars, pickVars, files,
                 listing, isLoading, genVars, pub>>

\* The message of an error postListingToEbay throws.
ThrownMessage == "message of the thrown error"

\* handlePostToEbay resumes after its await: a success result gives the success
\* message with the item URL; a result without success, or a thrown error, gives
\* an error message.
PostStatusIgnoresSuccessFlag(result, thrown) ==
  IF ~thrown
    THEN [loading |-> FALSE, error |-> "none",
          success |-> IF result.success THEN result.itemUrl ELSE "undefined"]
    ELSE [loading |-> FALSE, error |-> ThrownMessage, success |-> "none"]

PostStatusSilentOnFailure(result, thrown) ==
  IF ~thrown /\ result.success
    THEN [loading |-> FALSE, error |-> "none", success |-> result.itemUrl]
    ELSE [loading |-> FALSE,
          error |-> IF thrown THEN ThrownMessage ELSE "none",
          success |-> "none"]

PostStatusAfter(result, thrown) ==
  IF ~thrown /\ result.success
    THEN [loading |-> FALSE, error |-> "none", success |-> result.itemUrl]
    ELSE [loading |-> FALSE,
          error |-> IF thrown THEN ThrownMessage
                    ELSE "Posting failed for an unknown reason.",
          success |-> "none"]

(* --------------------- publish orchestrator (service) ----------------- *)
\* publish re-validates the images: not empty, within the count and size
\* limits, all of an image type.
ValidImages(images) ==
  /\ Len(images) > 0
  /\ Len(images) <= MAX_FILES
  /\ \A k \in 1..Len(images) :
       IsImageType(images[k]) /\ images[k].size <= MAX_SIZE_BYTES

\* publish's preconditions, checked without any network call.
PublishPrecheckConnectionOnly(store, images) ==
  IF ~IsConnected(store) THEN "NotConnected" ELSE "ok"

PublishPrecheck(store, images) ==
  IF ~IsConnected(store) THEN "NotConnected"
  ELSE IF ~ValidImages(images) THEN "InvalidInput"
  ELSE "ok"

\* The call ends with a failure.
Failed(p, reason, msg) ==
  [p EXCEPT !.pc = "done", !.resume = "idle", !.i = 0, !.result = Failure(reason, msg)]

\* publish is entered for the oldest request in flight.
PublishStart ==
  /\ pub.pc = "idle" /\ postQueue # <<>>
  /\ LET pre == PublishPrecheck(tokenStore, Head(postQueue).images) IN
       pub' = IF pre = "ok" THEN [IdlePub EXCEPT !.pc = "upload"]
              ELSE Failed(IdlePub, pre, "none")
  /\ UNCHANGED <<locVars, connVars, taskVars, srvVars, logVars, pickVars,
                 listVars, genVars, postQueue>>

\* The failure a step reports when its request fails.
StepFailureReason(step) ==
  CASE step = "upload" -> "MediaUploadFailed"
    [] step = "draft" -> "DraftFailed"
    [] step = "offer" -> "OfferFailed"
    [] step = "activate" -> "ActivationFailed"

\* How a step's request made with a valid token can end: the marketplace
\* answers with success or with an error, or no answer arrives in time; an offer
\* can also be rejected for a business rule, with a detail message.
StepOutcomes(step) ==
  {[kind |-> "ok", message |-> "none"], [kind |-> "fail", message |-> "none"],
   [kind |-> "timeout", message |-> "none"]}
  \cup (IF step = "offer"
          THEN {[kind |-> "rejected", message |-> m] : m \in MarketplaceMessages}
          ELSE {})

\* A request of the current step has been issued.
Attempted(p) == [p EXCEPT !.issued = @ \cup {p.pc}]

\* The way the step's request ended is noted when it is not a success: the
\* marketplace's message for a rejected offer; "failed" for an error answer and
\* for a timeout, which is treated as the failure of the step.
Answered(p, outcome) ==
  [p EXCEPT !.detail = CASE outcome.kind = "ok" -> @
                         [] outcome.kind = "rejected" -> outcome.message
                         [] OTHER -> "failed"]

\* The step taken after a request that succeeded: the next image or the next
\* step; the activation makes the listing live and ends the call with its URL.
StepAdvance(p, nImages) ==
  CASE p.pc = "upload" ->
         IF p.i + 1 = nImages THEN [p EXCEPT !.i = 0, !.pc = "draft"]
         ELSE [p EXCEPT !.i = @ + 1]
    [] p.pc = "draft" -> [p EXCEPT !.pc = "offer"]
    [] p.pc = "offer" -> [p EXCEPT !.pc = "activate"]
    [] p.pc = "activate" ->
         [p EXCEPT !.pc = "done", !.listed = @ + 1, !.result = Success(ItemUrl)]

\* The orchestrator after the step's request ended: on success the next image
\* or the next step, otherwise the end of the call.  An error answer and a
\* timeout are the failure of the step (i stays at the number of images that
\* were uploaded before it); a rejected offer ends the call with
\* ListingRejected and the marketplace's message.
StepResultSkipsFailedUpload(p, outcome, nImages) ==
  IF outcome.kind \in {"fail", "timeout"} /\ p.pc # "upload"
    THEN [Failed(Answered(p, outcome), StepFailureReason(p.pc), "none")
            EXCEPT !.i = p.i]
  ELSE IF outcome.kind = "rejected"
    THEN Failed(Answered(p, outcome), "ListingRejected", outcome.message)
  ELSE StepAdvance(Answered(p, outcome), nImages)

StepResultLiveOnTimeout(p, outcome, nImages) ==
  IF outcome.kind \in {"fail", "timeout"}
    THEN [Failed(Answered(p, outcome), StepFailureReason(p.pc), "none")
            EXCEPT !.i = p.i,
                   !.listed = IF p.pc = "activate" /\ outcome.kind = "timeout"
                                THEN @ + 1 ELSE @]
  ELSE IF outcome.kind = "rejected"
    THEN Failed(Answered(p, outcome), "ListingRejected", outcome.message)
  ELSE StepAdvance(Answered(p, outcome), nImages)

StepResult(p, outcome, nImages) ==
  IF outcome.kind \in {"fail", "timeout"}
    THEN [Failed(Answered(p, outcome), StepFailureReason(p.pc), "none")
            EXCEPT !.i = p.i]
  ELSE IF outcome.kind = "rejected"
    THEN Failed(Answered(p, outcome), "ListingRejected", outcome.message)
  ELSE StepAdvance(Answered(p, outcome), nImages)

\* A silent refresh is allowed once per publish call.
RefreshAlwaysAllowed(p) == TRUE

RefreshAllowed(p) == p.refreshes = 0

\* A step of the protocol is attempted with the current access token.  Without a
\* stored token the call ends with NotConnected; with an expired one the request
\* fails and the orchestrator goes on to refresh if it has not refreshed in this
\* call, and otherwise ends the call with the step's failure.
PublishAttempt ==
  /\ pub.pc \in PublishSteps
  /\ IF ~IsConnected(tokenStore)
       THEN pub' = Failed(pub, "NotConnected", "none")
     ELSE IF tokenStore.access = "expired"
       THEN pub' = IF RefreshAllowed(pub)
                     THEN [Attempted(pub) EXCEPT !.pc = "refresh", !.resume = pub.pc]
                     ELSE Failed(Attempted(pub), StepFailureReason(pub.pc), "none")
     ELSE \E outcome \in StepOutcomes(pub.pc) :
            pub' = StepResult(Attempted(pub), outcome, Len(Head(postQueue).images))
  /\ UNCHANGED <<locVars, connVars, taskVars, srvVars, logVars, pickVars,
                 listVars, genVars, postQueue>>

\* refresh(tokenSet): a new access token when the refresh token is valid;
\* otherwise RefreshFailed, and the Token Store is cleared.
RefreshKeepsStore(store) ==
  IF IsConnected(store) /\ store.refresh = "valid"
    THEN [ok |-> TRUE, store |-> [store EXCEPT !.access = "valid"]]
    ELSE [ok |-> FALSE, store |-> store]

Refresh(store) ==
  IF IsConnected(store) /\ store.refresh = "valid"
    THEN [ok |-> TRUE, store |-> [store EXCEPT !.access = "valid"]]
    ELSE [ok |-> FALSE, store |-> NoToken]

\* The orchestrator refreshes, then retries the step that failed; a failed
\* refresh ends the call with NotConnected.
PublishRefresh ==
  /\ pub.pc = "refresh"
  /\ LET r == Refresh(tokenStore)
         p == [pub EXCEPT !.refreshes = @ + 1] IN
       /\ tokenStore' = r.store
       /\ pub' = IF r.ok THEN [p EXCEPT !.pc = pub.resume, !.resume = "idle"]
                 ELSE Failed(p, "NotConnected", "none")
  /\ UNCHANGED <<locVars, connVars, taskVars, nonce, nextNonce, usedCodes,
                 logVars, pickVars, listVars, genVars, postQueue>>

\* publish returns its PublishResult (or raises its failure) to the caller, and
\* handlePostToEbay, if its page is still there, sets the post status.
PostSettle ==
  /\ pub.pc = "done"
  /\ postQueue' = Tail(postQueue)
  /\ pub' = IdlePub
  /\ IF Head(postQueue).alive /\ page = "app"
       THEN \E thrown \in (IF pub.result.success THEN {FALSE} ELSE {FALSE, TRUE}) :
              postStatus' = PostStatusAfter(pub.result, thrown)
       ELSE UNCHANGED postStatus
  /\ UNCHANGED <<locVars, connVars, taskVars, srvVars, logVars, pickVars, files,
                 listing, isLoading, genVars>>

\* Time passes: the access token expires.
AccessExpires ==
  /\ IsConnected(tokenStore) /\ tokenStore.access = "valid"
  /\ tokenStore' = [tokenStore EXCEPT !.access = "expired"]
  /\ UNCHANGED <<locVars, connVars, taskVars, nonce, nextNonce, usedCodes,
                 logVars, workVars>>

\* The refresh token is revoked on the marketplace's side.
RefreshRevoked ==
  /\ IsConnected(tokenStore) /\ tokenStore.refresh = "valid"
  /\ tokenStore' = [tokenStore EXCEPT !.refresh = "revoked"]
  /\ UNCHANGED <<locVars, connVars, taskVars, nonce, nextNonce, usedCodes,
                 logVars, workVars>>

(* --------------------------- specification ---------------------------- *)
Init ==
  /\ page = "app" /\ pathname = "/" /\ urlCode = 0 /\ urlState = 0
  /\ isConnecting = TRUE /\ isEbayConnected = FALSE /\ error = "none"
  /\ initPc = "sent" /\ initVal = FALSE /\ cbPc = "none"
  /\ tokenStore = NoToken /\ nonce = 0 /\ nextNonce = 1 /\ usedCodes = {}
  /\ discLog = NoDiscCall
  /\ currentFiles = <<>> /\ uploadError = "none" /\ lastSelected = <<>>
  /\ files = <<>> /\ listing = NoListing /\ isLoading = FALSE
  /\ postStatus = IdlePostStatus
  /\ genPc = "idle" /\ genFiles = <<>>
  /\ postQueue = <<>> /\ pub = IdlePub

Next ==
  \/ PageLoad
  \/ InitServe
  \/ InitSettle
  \/ ExchangeServe
  \/ HandleEbayCallback
  \/ HandleEbayConnect
  \/ HandleEbayDisconnect

Spec == Init /\ [][Next]_vars

\* The application loaded at "/" after its connection check has settled, either
\* disconnected or connected through code 1 and nonce 1.
InitPublish ==
  /\ page = "app" /\ pathname = "/" /\ urlCode = 0 /\ urlState = 0
  /\ isConnecting = FALSE /\ error = "none"
  /\ initPc = "done" /\ cbPc = "none"
  /\ \/ /\ tokenStore = NoToken /\ nonce = 0 /\ nextNonce = 1 /\ usedCodes = {}
        /\ initVal = FALSE /\ isEbayConnected = FALSE
     \/ /\ tokenStore = TokenFor(1) /\ nonce = 1 /\ nextNonce = 2
        /\ usedCodes = {1}
        /\ initVal = TRUE /\ isEbayConnected = TRUE
  /\ discLog = NoDiscCall
  /\ currentFiles = <<>> /\ uploadError = "none" /\ lastSelected = <<>>
  /\ files = <<>> /\ listing = NoListing /\ isLoading = FALSE
  /\ postStatus = IdlePostStatus
  /\ genPc = "idle" /\ genFiles = <<>>
  /\ postQueue = <<>> /\ pub = IdlePub

NextPublish ==
  \/ ProcessFiles
  \/ HandleRemoveImage
  \/ HandleGenerateListing
  \/ GenSettle
  \/ HandlePostToEbay
  \/ PublishStart
  \/ PublishAttempt
  \/ PublishRefresh
  \/ PostSettle
  \/ AccessExpires
  \/ RefreshRevoked
  \/ HandleEbayDisconnect

SpecPublish == InitPublish /\ [][NextPublish]_vars

\* The application connected through code 1, with 1..MaxImages accepted images
\* picked and a listing generated from them: the state in which the post button
\* is first enabled.
InitOrchestrator ==
  /\ page = "app" /\ pathname = "/" /\ urlCode = 0 /\ urlState = 0
  /\ isConnecting = FALSE /\ error = "none"
  /\ initPc = "done" /\ cbPc = "none"
  /\ tokenStore = TokenFor(1) /\ nonce = 1 /\ nextNonce = 2 /\ usedCodes = {1}
  /\ initVal = TRUE /\ isEbayConnected = TRUE
  /\ discLog = NoDiscCall
  /\ \E n \in 1..MaxImages :
       /\ currentFiles = [k \in 1..n |-> SmallImage]
       /\ lastSelected = [k \in 1..n |-> SmallImage]
       /\ files = [k \in 1..n |-> SmallImage]
  /\ uploadError = "none"
  /\ listing = GoodData /\ isLoading = FALSE
  /\ postStatus = IdlePostStatus
  /\ genPc = "idle" /\ genFiles = <<>>
  /\ postQueue = <<>> /\ pub = IdlePub

\* The posts of that listing, each followed through the publish protocol.
NextOrchestrator ==
  \/ HandlePostToEbay
  \/ PublishStart
  \/ PublishAttempt
  \/ PublishRefresh
  \/ PostSettle
  \/ AccessExpires
  \/ RefreshRevoked

SpecOrchestrator == InitOrchestrator /\ [][NextOrchestrator]_vars

\* The image picker and the generation, from the application loaded at "/" with
\* no marketplace connection.
InitPicker == InitPublish /\ ~isEbayConnected

NextPicker ==
  \/ ProcessWideFiles
  \/ HandleRemoveImage
  \/ HandleGenerateListing
  \/ GenSettle

SpecPicker == InitPicker /\ [][NextPicker]_vars

(* ------------------------ authorization claims ------------------------ *)
\* A step in which the server settles a completeAuthorization call.
ExchangeStep == cbPc = "sent" /\ cbPc' \in AuthResults
\* A step in which disconnect is called.
DisconnectStep == discLog'.tick # discLog.tick

\* C1: a callback whose state differs from the outstanding nonce (or that carries
\* no state) fails with InvalidState, exchanges no code and leaves the Token
\* Store as it was.
C1_StateMismatchRejected ==
  [][(ExchangeStep /\ ~StateMatches(urlState, nonce))
       => (cbPc' = "InvalidState" /\ tokenStore' = tokenStore
           /\ usedCodes' = usedCodes)]_vars

\* A step in which handleEbayCallback resumes with the result of the call.
CallbackSettled == cbPc \in AuthResults /\ cbPc' = "done"

\* C2: with a matching state, the first call with an issued code stores the
\* TokenSet obtained for that code, and every later call with the same code fails
\* with ExchangeFailed and stores nothing; the callback handler sets the
\* connected flag for the call that succeeded and reports an error, leaving the
\* flag alone, for one that failed.
C2_CodeRedeemedOnce ==
  /\ [][(ExchangeStep /\ StateMatches(urlState, nonce) /\ urlCode \in IssuedCodes)
          => IF urlCode \notin usedCodes
               THEN /\ cbPc' = "ok"
                    /\ tokenStore' = TokenFor(urlCode)
                    /\ usedCodes' = usedCodes \cup {urlCode}
               ELSE /\ cbPc' = "ExchangeFailed"
                    /\ tokenStore' = tokenStore
                    /\ usedCodes' = usedCodes]_vars
  /\ [][CallbackSettled
          => IF cbPc = "ok"
               THEN isEbayConnected' /\ error' = error
               ELSE isEbayConnected' = isEbayConnected /\ error' = "connectFailed"]_vars

\* A repeated call (matching state, code already redeemed) has failed.
C2_Witness ==
  /\ cbPc = "ExchangeFailed"
  /\ StateMatches(urlState, nonce)
  /\ urlCode \in usedCodes
  /\ tokenStore.held

\* C3: once beginAuthorization has been called again, a callback carrying the
\* nonce of an earlier call fails with InvalidState.
C3_SupersededNonceRejected ==
  [][(ExchangeStep /\ urlState # 0 /\ urlState < nonce)
       => cbPc' = "InvalidState"]_vars

\* C4: after a disconnect call, and after a second one in a row, isConnected() is
\* false; a disconnect that returns leaves the connected flag false; the second
\* call in a row returns without error and changes no session state.
C4_DisconnectIdempotent ==
  /\ [](discLog.inRow >= 1 => ~IsConnected(tokenStore))
  /\ [][DisconnectStep
          => /\ discLog'.outcome = "ok" => ~isEbayConnected'
             /\ discLog.inRow >= 1
                  => discLog'.outcome = "ok" /\ srvVars' = srvVars]_vars

\* Two disconnect calls in a row have been made.
C4_Witness ==
  discLog.inRow = 2 /\ discLog.outcome = "ok" /\ ~isEbayConnected

\* C5: whether disconnect returns or throws, afterwards the Token Store is empty
\* and the connected flag is false.
C5_DisconnectClearsLocalState ==
  [][DisconnectStep => (tokenStore' = NoToken /\ ~isEbayConnected')]_vars

(* --------------------------- publish claims --------------------------- *)
\* Steps of the orchestrator: publish is entered; a protocol step is attempted;
\* the refresh is made; and steps of the UI: a post is triggered; its result
\* arrives.
PublishEntered == pub.pc = "idle" /\ pub'.pc # "idle"
AttemptStep == pub.pc \in PublishSteps /\ pub' # pub
RefreshStep == pub.pc = "refresh" /\ pub' # pub
PostTriggered == Len(postQueue') > Len(postQueue)
PostSettled == pub.pc = "done" /\ pub'.pc = "idle" /\ Head(postQueue).alive
\* No request of any kind has been issued in the call.
NoNetworkCall(p) == p.issued = {} /\ p.refreshes = 0 /\ p.listed = 0

C7_PostOnlyConnectedAndIdle ==
  /\ [][(PublishEntered /\ ~IsConnected(tokenStore))
          => /\ pub'.pc = "done"
             /\ pub'.result.failureReason = "NotConnected"
             /\ NoNetworkCall(pub')]_vars
  /\ [][PostTriggered => (isEbayConnected /\ postQueue = <<>>)]_vars

\* C8: at most one refresh is made per publish call; a step that finds the
\* access token expired leads to one refresh when none was made in the call,
\* after which that step is retried with a valid token, and to the end of the
\* call with a failure, and no refresh, when one was made.
C8_RefreshAtMostOnce ==
  /\ [](pub.refreshes <= 1)
  /\ [][(AttemptStep /\ IsConnected(tokenStore) /\ tokenStore.access = "expired")
          => IF pub.refreshes = 0
               THEN pub'.pc = "refresh" /\ pub'.resume = pub.pc
               ELSE /\ pub'.pc = "done" /\ ~pub'.result.success
                    /\ pub'.result.itemUrl = "none"
                    /\ pub'.refreshes = pub.refreshes]_vars
  /\ [][(RefreshStep /\ IsConnected(tokenStore) /\ tokenStore.refresh = "valid")
          => /\ pub'.pc = pub.resume /\ pub'.i = pub.i
             /\ pub'.refreshes = 1
             /\ tokenStore'.access = "valid"]_vars

\* A publish call that refreshed once has ended with success and the item URL.
C8_Witness ==
  /\ pub.pc = "done" /\ pub.refreshes = 1
  /\ pub.result.success /\ pub.result.itemUrl = ItemUrl

\* C9: a refresh that fails ends the publish call with NotConnected, clears the
\* Token Store and is not retried; and an empty Token Store stays empty until a
\* completeAuthorization call succeeds.
C9_FailedRefreshDisconnects ==
  /\ [][(RefreshStep /\ ~(IsConnected(tokenStore) /\ tokenStore.refresh = "valid"))
          => /\ pub'.pc = "done"
             /\ pub'.result.failureReason = "NotConnected"
             /\ ~pub'.result.success
             /\ pub'.refreshes = 1
             /\ tokenStore' = NoToken]_vars
  /\ [][(~IsConnected(tokenStore) /\ IsConnected(tokenStore'))
          => (cbPc = "sent" /\ cbPc' = "ok")]_vars

\* A publish call has ended on a failed refresh.
C9_Witness ==
  /\ pub.pc = "done" /\ pub.refreshes = 1
  /\ pub.result.failureReason = "NotConnected"
  /\ ~IsConnected(tokenStore)

\* C10: a PublishResult has an item URL iff it is a success; a rejected offer
\* ends the call with ListingRejected carrying the marketplace's detail message,
\* without item URL and without an activation request; and the UI reports a
\* success, with the item URL, only for a result that is a success.
C10_ResultNeverPartial ==
  /\ [](pub.result.success <=> pub.result.itemUrl # "none")
  /\ [](pub.result.failureReason = "ListingRejected"
          => /\ pub.result.message = pub.detail
             /\ pub.detail \in MarketplaceMessages
             /\ ~pub.result.success
             /\ "activate" \notin pub.issued /\ pub.listed = 0)
  /\ [][PostSettled
          => (postStatus'.success # "none"
                <=> (pub.result.success /\ postStatus'.success = pub.result.itemUrl))]_vars

\* A publish call has ended with a rejected offer.
C10_Witness ==
  /\ pub.pc = "done"
  /\ pub.result.failureReason = "ListingRejected"
  /\ pub.result.message \in MarketplaceMessages

(* ------------------------- orchestrator claims ------------------------ *)
\* The kinds of request issued so far follow the protocol's order without a gap.
IssuedInOrder(issued) ==
  issued \in {{}, {"upload"}, {"upload", "draft"}, {"upload", "draft", "offer"},
              PublishSteps}
\* The step the protocol goes to after step s has succeeded.
StepAfter(s) ==
  CASE s = "idle" -> "upload"
    [] s = "upload" -> "draft"
    [] s = "draft" -> "offer"
    [] s = "offer" -> "activate"
    [] OTHER -> "none"

\* C11: the requests of a publish call are issued in the order upload, draft,
\* offer, activation; a step is entered only from the step before it (or on the
\* retry after a refresh), the draft only after the last image was uploaded;
\* once a request has failed no further request is issued in the call; and a
\* call that ends with MediaUploadFailed has issued upload requests only and
\* made nothing live, however many images were uploaded before the failure.
C11_StepsInOrder ==
  /\ [](IssuedInOrder(pub.issued))
  /\ [](pub.detail # "none" => (pub.pc = "done" /\ ~pub.result.success))
  /\ [](pub.result.failureReason = "MediaUploadFailed"
          => /\ pub.pc = "done" /\ ~pub.result.success
             /\ pub.issued = {"upload"} /\ pub.listed = 0)
  /\ [][(pub'.pc \in PublishSteps /\ pub'.pc # pub.pc)
          => \/ pub'.pc = StepAfter(pub.pc)
             \/ pub.pc = "refresh" /\ pub'.pc = pub.resume]_vars
  /\ [][(pub.pc = "upload" /\ pub'.pc = "draft")
          => pub.i + 1 = Len(Head(postQueue).images)]_vars
  /\ [][(pub.pc = "upload" /\ pub'.pc = "done" /\ pub.detail = "none"
          /\ pub'.detail # "none")
          => /\ pub'.result.failureReason = "MediaUploadFailed"
             /\ pub'.i = pub.i]_vars

\* A publish call of several images has ended with MediaUploadFailed after the
\* upload of an earlier image succeeded.
C11_Witness ==
  /\ pub.pc = "done"
  /\ pub.result.failureReason = "MediaUploadFailed"
  /\ pub.i >= 1 /\ Len(Head(postQueue).images) > pub.i
  /\ pub.issued = {"upload"}

AllFourPresent(d) ==
  /\ d.title = "present"
  /\ d.category = "nonEmptyArray"
  /\ d.itemSpecifics = "present"
  /\ d.description = "present"
\* A step in which handleGenerateListing resumes with the answer.
GenSettled == genPc = "sent" /\ genPc' = "idle" /\ page' = page

\* C13: the current listing, when there is one, has all four fields; a
\* generation that settles either installs a listing that has them, leaving the
\* error as it was, or installs nothing and sets an error; and a post is
\* triggered only with a listing that has them.
C13_MalformedListingRejected ==
  /\ [](listing.present => AllFourPresent(listing))
  /\ [][GenSettled
          => IF listing'.present
               THEN AllFourPresent(listing') /\ error' = error
               ELSE error' \in {"malformedData", "generateFailed"}]_vars
  /\ [][PostTriggered => AllFourPresent(listing)]_vars

\* A generation has ended on malformed data: no listing, the error shown.
C13_Witness ==
  /\ error = "malformedData"
  /\ ~listing.present /\ ~isLoading /\ genPc = "idle"
  /\ files # <<>>

\* A file list within the picker's bounds: at most 8 files, each of an image
\* type and of at most 5 MB.
WithinBounds(list) ==
  /\ Len(list) <= 8
  /\ \A k \in 1..Len(list) :
       list[k].type = "image/png" /\ list[k].size <= 5 * 1024 * 1024

\* C14: the list reported to the application is the picker's list and is within
\* the bounds; a selection within the bounds is reported as it is, without
\* error, and the list then changes only by the removal of one file or by the
\* same selection made again; a selection outside them is reported as the empty
\* list with an error set.
C14_PickerReportsBoundedList ==
  /\ [](files = currentFiles /\ WithinBounds(files))
  /\ [](IF WithinBounds(lastSelected)
          THEN uploadError = "none" /\ Len(files) <= Len(lastSelected)
          ELSE uploadError # "none" /\ files = <<>>)
  /\ [][lastSelected' # lastSelected
          => IF WithinBounds(lastSelected')
               THEN files' = lastSelected' ELSE files' = <<>>]_vars
  /\ [][(lastSelected' = lastSelected /\ files' # files)
          => \/ Len(files') = Len(files) - 1
             \/ WithinBounds(lastSelected) /\ files' = lastSelected]_vars

\* A selection of acceptable images, one more than the limit, has been
\* rejected as a whole.
C14_Witness ==
  /\ Len(lastSelected) = MAX_FILES + 1
  /\ \A k \in 1..Len(lastSelected) : lastSelected[k] = SmallImage
  /\ uploadError = "tooMany"
  /\ files = <<>> /\ currentFiles = <<>>

(* ------------------------------ UI claims ----------------------------- *)
\* C15: postStatus never holds an error and a success together; while it is
\* loading it holds neither; and when a post settles, loading goes off and
\* exactly one of the two is set: the success for a result that is a success,
\* the error for a result that is not and for a thrown error.
C15_PostSingleOutcome ==
  /\ [](~(postStatus.error # "none" /\ postStatus.success # "none"))
  /\ [](postStatus.loading
          => (postStatus.error = "none" /\ postStatus.success = "none"))
  /\ [][PostSettled
          => /\ ~postStatus'.loading
             /\ (postStatus'.error # "none") # (postStatus'.success # "none")
             /\ pub.result.success <=> postStatus'.success # "none"]_vars

\* A post has settled on a result that is not a success and was not thrown.
C15_Witness ==
  /\ ~postStatus.loading
  /\ postStatus.error = "Posting failed for an unknown reason."
  /\ postStatus.success = "none"

\* A step in which initialize() resumes with the answer of the connection check.
InitSettled == initPc \in {"answered", "threw"} /\ initPc' = "done"

\* C16: on the callback path the spinner stays on from the moment the exchange
\* is sent until handleEbayCallback has resumed; a successful exchange leaves
\* the connected flag true and the spinner off; and the connection check that
\* resumes after it does not set the flag back to false while the Token Store
\* holds the TokenSet.
C16_CallbackOutlivesCheck ==
  /\ []((page = "app" /\ cbPc \in {"sent"} \cup AuthResults) => isConnecting)
  /\ [][(CallbackSettled /\ cbPc = "ok")
          => (isEbayConnected' /\ ~isConnecting')]_vars
  /\ [][(InitSettled /\ cbPc = "done" /\ isEbayConnected
          /\ IsConnected(tokenStore))
          => isEbayConnected']_vars

\* C17: while there is a listing the file list is not empty; a generation
\* installs its listing only when the file list is still the one it was started
\* from; and a post carries at least one image.
C17_ListingMatchesFiles ==
  /\ [](listing.present => files # <<>>)
  /\ [][(GenSettled /\ listing'.present) => genFiles = files]_vars
  /\ [][PostTriggered => postQueue'[Len(postQueue')].images # <<>>]_vars

====
